---- MODULE Spec2Model ----
(***************************************************************************)
(* Model of src/main.rs: a console tic-tac-toe.  Board is a vector of      *)
(* BOARD_WIDTH * BOARD_WIDTH optional pieces, Game holds the GameState     *)
(* (board, turn) and the precomputed winning lines, and Game::run is the   *)
(* loop display -> read a move -> place -> check winner -> flip turn.      *)
(***************************************************************************)
EXTENDS Integers, Sequences, FiniteSets, TLC

\* ------------------------------------------------------------------ bounds
\* longest line typed on stdin (without its newline)
MaxLen == 3
\* largest coordinate handed to get_position / set_piece when called directly
MaxCoord == 3
\* number of most recent println events kept in stdout
OutTail == 2

\* --------------------------------------------------------------- constants
BOARD_WIDTH == 3

Naught == "Naught"
Cross == "Cross"
Piece == {Naught, Cross}
\* BoardPosition = Option<Piece>: None, or the piece itself for Some(piece)
None == "None"
BoardPosition == Piece \cup {None}

\* Result<T, TicTacToeError>
Ok(v) == <<"Ok", v>>
Err(e) == <<"Err", e>>
IsOk(r) == r[1] = "Ok"
IsErr(r) == r[1] = "Err"
OutOfBounds == <<"OutOfBounds">>
PieceInPosition(x, y) == <<"PieceInPosition", x, y>>
InvalidMoveInput == <<"InvalidMoveInput">>
\* a panic (index out of bounds, failed expect) unwinds and ends the process
Panic == <<"Panic", <<>>>>
IsPanic(r) == r[1] = "Panic"

\* impl Display for Piece
Piece_fmt(piece) == IF piece = Cross THEN "X" ELSE "O"

\* -------------------------------------------------------------------- Board
Cells == 0 .. (BOARD_WIDTH * BOARD_WIDTH - 1)

Board_new == [i \in Cells |-> None]

get_position_offbyone(positions, x, y) ==
    IF x > BOARD_WIDTH \/ y > BOARD_WIDTH
    THEN Err(OutOfBounds)
    ELSE IF (y * BOARD_WIDTH + x) \in DOMAIN positions
         THEN Ok(positions[y * BOARD_WIDTH + x])
         ELSE Panic

get_position(positions, x, y) ==
    IF x >= BOARD_WIDTH \/ y >= BOARD_WIDTH
    THEN Err(OutOfBounds)
    ELSE Ok(positions[y * BOARD_WIDTH + x])

set_piece_transposed(positions, x, y, piece) ==
    LET got == get_position(positions, x, y) IN
    IF ~IsOk(got) THEN got
    ELSE IF got[2] # None THEN Err(PieceInPosition(x, y))
    ELSE Ok([i \in DOMAIN positions |->
                IF i = x * BOARD_WIDTH + y THEN piece ELSE positions[i]])

set_piece_wipes(positions, x, y, piece) ==
    LET got == get_position(positions, x, y) IN
    IF ~IsOk(got) THEN got
    ELSE IF got[2] # None THEN Err(PieceInPosition(x, y))
    ELSE Ok([i \in DOMAIN positions |->
                IF i = y * BOARD_WIDTH + x THEN piece ELSE None])

set_piece_overwrites(positions, x, y, piece) ==
    LET got == get_position(positions, x, y) IN
    IF ~IsOk(got) THEN got
    ELSE IF got[2] = piece THEN Err(PieceInPosition(x, y))
    ELSE Ok([i \in DOMAIN positions |->
                IF i = y * BOARD_WIDTH + x THEN piece ELSE positions[i]])

set_piece(positions, x, y, piece) ==
    LET got == get_position(positions, x, y) IN
    IF ~IsOk(got) THEN got
    ELSE IF got[2] # None THEN Err(PieceInPosition(x, y))
    ELSE Ok([i \in DOMAIN positions |->
                IF i = y * BOARD_WIDTH + x THEN piece ELSE positions[i]])

\* impl Display for Board: the text written, one string per write!
RECURSIVE Board_fmt_row(_, _, _)
Board_fmt_row(positions, i, j) ==
    IF j >= BOARD_WIDTH THEN <<"\n">>
    ELSE LET p == positions[i * BOARD_WIDTH + j] IN
         << (IF p = None THEN "." ELSE Piece_fmt(p)), " " >>
            \o Board_fmt_row(positions, i, j + 1)

RECURSIVE Board_fmt_from(_, _)
Board_fmt_from(positions, i) ==
    IF i >= BOARD_WIDTH THEN <<>>
    ELSE Board_fmt_row(positions, i, 0) \o Board_fmt_from(positions, i + 1)

Board_fmt(positions) == Board_fmt_from(positions, 0)

\* println! appends a newline to the formatted text
println(text) == text \o <<"\n">>

\* --------------------------------------------------------------- Game::new
winning_positions_no_antidiagonal ==
    [k \in 1 .. (2 * BOARD_WIDTH) |->
        LET i == (k - 1) \div 2 IN
        IF k % 2 = 1
        THEN [j \in 1 .. BOARD_WIDTH |-> <<j - 1, i>>]
        ELSE [j \in 1 .. BOARD_WIDTH |-> <<i, j - 1>>]]
    \o << [i \in 1 .. BOARD_WIDTH |-> <<i - 1, i - 1>>],
          [i \in 1 .. BOARD_WIDTH |-> <<i - 1, i - 1>>] >>

winning_positions_no_columns ==
    [k \in 1 .. BOARD_WIDTH |-> [j \in 1 .. BOARD_WIDTH |-> <<j - 1, k - 1>>]]
    \o << [i \in 1 .. BOARD_WIDTH |-> <<i - 1, i - 1>>],
          [i \in 1 .. BOARD_WIDTH |-> <<BOARD_WIDTH - 1 - (i - 1), i - 1>>] >>

Game_new_winning_positions ==
    [k \in 1 .. (2 * BOARD_WIDTH) |->
        LET i == (k - 1) \div 2 IN
        IF k % 2 = 1
        THEN [j \in 1 .. BOARD_WIDTH |-> <<j - 1, i>>]
        ELSE [j \in 1 .. BOARD_WIDTH |-> <<i, j - 1>>]]
    \o << [i \in 1 .. BOARD_WIDTH |-> <<i - 1, i - 1>>],
          [i \in 1 .. BOARD_WIDTH |-> <<BOARD_WIDTH - 1 - (i - 1), i - 1>>] >>

\* ------------------------------------------------------- turn and winner
change_turn_stays(turn) == turn

change_turn(turn) == IF turn = Naught THEN Cross ELSE Naught

check_slice_for_winner_any_piece(positions, slice) ==
    LET got == [k \in 1 .. Len(slice) |->
                    get_position(positions, slice[k][1], slice[k][2])] IN
    IF \E k \in 1 .. Len(slice) : ~IsOk(got[k]) THEN "Panic"
    ELSE IF Len(slice) = 0 THEN "Panic"
    ELSE LET position == got[1][2] IN
         IF \A k \in 1 .. Len(slice) : got[k][2] # None
         THEN position
         ELSE None

check_slice_for_winner_never(positions, slice) == None

\* Option<Piece>, or "Panic" when an expect fails
check_slice_for_winner(positions, slice) ==
    LET got == [k \in 1 .. Len(slice) |->
                    get_position(positions, slice[k][1], slice[k][2])] IN
    IF \E k \in 1 .. Len(slice) : ~IsOk(got[k]) THEN "Panic"
    ELSE IF Len(slice) = 0 THEN "Panic"
    ELSE LET position == got[1][2] IN
         IF \A k \in 1 .. Len(slice) : got[k][2] # None /\ got[k][2] = position
         THEN position
         ELSE None

RECURSIVE check_winner_from(_, _, _)
check_winner_from(positions, lines, k) ==
    IF k > Len(lines) THEN None
    ELSE LET winner == check_slice_for_winner(positions, lines[k]) IN
         IF winner # None THEN winner
         ELSE check_winner_from(positions, lines, k + 1)

check_winner_skips_first(positions, lines) == check_winner_from(positions, lines, 2)

check_winner(positions, lines) == check_winner_from(positions, lines, 1)

\* ------------------------------------------------------------ Game::get_move
\* characters a line is typed from
Chars == {"0", "1", "2", "3", "+", "a", " "}
Whitespace == {" ", "\n"}
Digits == <<"0", "1", "2", "3", "4", "5", "6", "7", "8", "9">>
IsDigit(c) == \E d \in 1 .. 10 : Digits[d] = c
DigitValue(c) == (CHOOSE d \in 1 .. 10 : Digits[d] = c) - 1

RECURSIVE SeqsUpTo(_)
SeqsUpTo(n) ==
    IF n = 0 THEN {<<>>}
    ELSE LET shorter == SeqsUpTo(n - 1) IN
         shorter \cup {Append(s, c) : s \in {t \in shorter : Len(t) = n - 1}, c \in Chars}

\* what read_line can do: a typed line with its newline, end of file
\* (nothing appended), or an I/O error
Lines == SeqsUpTo(MaxLen)
StdinReads == {Ok(l \o <<"\n">>) : l \in Lines} \cup {Ok(<<>>), Err(<<"io">>)}

RECURSIVE trim_start(_)
trim_start(s) ==
    IF s # <<>> /\ Head(s) \in Whitespace THEN trim_start(Tail(s)) ELSE s

RECURSIVE trim_end(_)
trim_end(s) ==
    IF s # <<>> /\ s[Len(s)] \in Whitespace
    THEN trim_end(SubSeq(s, 1, Len(s) - 1)) ELSE s

trim(s) == trim_end(trim_start(s))

\* str::split(" "): the pieces between single spaces, empty pieces included
RECURSIVE split(_)
split(s) ==
    IF \A k \in 1 .. Len(s) : s[k] # " " THEN <<s>>
    ELSE LET at == CHOOSE k \in 1 .. Len(s) :
                       s[k] = " " /\ \A m \in 1 .. (k - 1) : s[m] # " " IN
         <<SubSeq(s, 1, at - 1)>> \o split(SubSeq(s, at + 1, Len(s)))

RECURSIVE digits_value(_, _)
digits_value(s, acc) ==
    IF s = <<>> THEN acc
    ELSE digits_value(Tail(s), acc * 10 + DigitValue(Head(s)))

\* str::parse::<usize>: an optional leading +, then one or more digits.
\* (A value over 2^64 - 1 is an error too; it takes 20 digits, and no line
\* here is that long.)
parse_usize(token) ==
    LET digits == IF token # <<>> /\ Head(token) = "+" THEN Tail(token) ELSE token IN
    IF digits = <<>> \/ \E k \in 1 .. Len(digits) : ~IsDigit(digits[k])
    THEN Err(<<"ParseIntError">>)
    ELSE Ok(digits_value(digits, 0))

get_move(read) ==
    IF IsErr(read) THEN Err(InvalidMoveInput)
    ELSE LET coords == split(trim(read[2])) IN
         IF IsErr(parse_usize(coords[1])) THEN Err(InvalidMoveInput)
         ELSE IF Len(coords) < 2 THEN Panic
         ELSE IF IsErr(parse_usize(coords[2])) THEN Err(InvalidMoveInput)
         ELSE Ok(<<parse_usize(coords[1])[2], parse_usize(coords[2])[2]>>)

\* every outcome get_move can have on some read
MoveOutcomes == {get_move(read) : read \in StdinReads}

\* ------------------------------------------------------------------- state
VARIABLES
    board,              \* self.state.board.positions
    turn,               \* self.state.turn
    winning_positions,  \* self.winning_positions
    pc,                 \* where Game::run is
    stdout,             \* the last OutTail texts printed
    stdin,              \* the read the next get_move will get, or AnyInput
    nmoves,             \* successful moves of the current round
    first_mover,        \* piece that made the first move of the current round
    last_mover,         \* piece that made the latest move of the current round
    prev_first,         \* first_mover of the round that ended last
    prev_last,          \* last_mover of the round that ended last
    call                \* latest direct call of a Board / Game function

vars == <<board, turn, winning_positions, pc, stdout, stdin, nmoves,
          first_mover, last_mover, prev_first, prev_last, call>>

AnyInput == <<"Any", <<>>>>
NoCall == [fn |-> "none", x |-> 0, y |-> 0, piece |-> None, ret |-> <<>>]

RECURSIVE keep_tail(_)
keep_tail(s) == IF Len(s) > OutTail THEN keep_tail(Tail(s)) ELSE s
print(out, text) == keep_tail(Append(out, println(text)))

StartingTheGame == <<"Starting the game!">>
PickAPosition == <<"Pick a position:">>
InvalidMove == <<"Invalid move. Try again:">>
StartingANewGame == <<"Starting a new game!">>
Won(winner) == <<Piece_fmt(winner), " won!">>

\* ------------------------------------------------------------------ Game::run
\* Game::new() followed by entering run
Init ==
    /\ board = Board_new
    /\ turn = Naught
    /\ winning_positions = Game_new_winning_positions
    /\ pc = "start"
    /\ stdout = <<>>
    /\ stdin = AnyInput
    /\ nmoves = 0
    /\ first_mover = None
    /\ last_mover = None
    /\ prev_first = None
    /\ prev_last = None
    /\ call = NoCall

\* line 199
Start ==
    /\ pc = "start"
    /\ stdout' = print(stdout, StartingTheGame)
    /\ pc' = "display"
    /\ UNCHANGED <<board, turn, winning_positions, stdin, nmoves,
                   first_mover, last_mover, prev_first, prev_last, call>>

\* line 202
Display ==
    /\ pc = "display"
    /\ stdout' = print(stdout, Board_fmt(board))
    /\ pc' = "prompt"
    /\ UNCHANGED <<board, turn, winning_positions, stdin, nmoves,
                   first_mover, last_mover, prev_first, prev_last, call>>

\* line 203
Prompt ==
    /\ pc = "prompt"
    /\ stdout' = print(stdout, PickAPosition)
    /\ pc' = "move"
    /\ UNCHANGED <<board, turn, winning_positions, stdin, nmoves,
                   first_mover, last_mover, prev_first, prev_last, call>>

\* lines 204-215, one pass of the innermost loop on the outcome of get_move
MoveWith_failure_flips_turn(moved) ==
    IF IsPanic(moved)
    THEN /\ pc' = "panicked"
         /\ UNCHANGED <<board, turn, stdout, nmoves, first_mover, last_mover>>
    ELSE LET placed == IF IsOk(moved)
                       THEN set_piece(board, moved[2][1], moved[2][2], turn)
                       ELSE moved IN
         IF IsOk(placed)
         THEN /\ board' = placed[2]
              /\ pc' = "check"
              /\ nmoves' = nmoves + 1
              /\ first_mover' = IF nmoves = 0 THEN turn ELSE first_mover
              /\ last_mover' = turn
              /\ UNCHANGED <<turn, stdout>>
         ELSE /\ stdout' = print(stdout, InvalidMove)
              /\ turn' = change_turn(turn)
              /\ UNCHANGED <<board, pc, nmoves, first_mover, last_mover>>

MoveWith(moved) ==
    IF IsPanic(moved)
    THEN /\ pc' = "panicked"
         /\ UNCHANGED <<board, turn, stdout, nmoves, first_mover, last_mover>>
    ELSE LET placed == IF IsOk(moved)
                       THEN set_piece(board, moved[2][1], moved[2][2], turn)
                       ELSE moved IN
         IF IsOk(placed)
         THEN /\ board' = placed[2]
              /\ pc' = "check"
              /\ nmoves' = nmoves + 1
              /\ first_mover' = IF nmoves = 0 THEN turn ELSE first_mover
              /\ last_mover' = turn
              /\ UNCHANGED <<turn, stdout>>
         ELSE /\ stdout' = print(stdout, InvalidMove)
              /\ UNCHANGED <<board, turn, pc, nmoves, first_mover, last_mover>>

Move ==
    /\ pc = "move"
    /\ \E moved \in (IF stdin = AnyInput THEN MoveOutcomes ELSE {get_move(stdin)}) :
          MoveWith(moved)
    /\ UNCHANGED <<winning_positions, stdin, prev_first, prev_last, call>>

\* lines 216-220
Check ==
    /\ pc = "check"
    /\ LET winner == check_winner(board, winning_positions) IN
       IF winner = "Panic"
       THEN /\ pc' = "panicked"
            /\ UNCHANGED <<turn, stdout>>
       ELSE IF winner # None
       THEN /\ stdout' = print(stdout, Won(winner))
            /\ pc' = "won"
            /\ UNCHANGED turn
       ELSE /\ turn' = change_turn(turn)
            /\ pc' = "display"
            /\ UNCHANGED stdout
    /\ UNCHANGED <<board, winning_positions, stdin, nmoves, first_mover,
                   last_mover, prev_first, prev_last, call>>

reset_state_keeps_turn(state_turn) == [board |-> Board_new, turn |-> state_turn]

reset_state_naught_starts(state_turn) == [board |-> Board_new, turn |-> Naught]

reset_state(state_turn) == [board |-> Board_new, turn |-> change_turn(state_turn)]

\* lines 222-223
Reset ==
    /\ pc = "won"
    /\ stdout' = print(stdout, StartingANewGame)
    /\ board' = reset_state(turn).board
    /\ turn' = reset_state(turn).turn
    /\ pc' = "display"
    /\ nmoves' = 0
    /\ first_mover' = None
    /\ last_mover' = None
    /\ prev_first' = first_mover
    /\ prev_last' = last_mover
    /\ UNCHANGED <<winning_positions, stdin, call>>

Next == Start \/ Display \/ Prompt \/ Move \/ Check \/ Reset

Spec == Init /\ [][Next]_vars

\* ------------------------------------------- one typed line, from the start
\* Game::new().run() when every read of stdin gives the same thing
InitInput ==
    /\ board = Board_new
    /\ turn = Naught
    /\ winning_positions = Game_new_winning_positions
    /\ pc = "start"
    /\ stdout = <<>>
    /\ stdin \in StdinReads
    /\ nmoves = 0
    /\ first_mover = None
    /\ last_mover = None
    /\ prev_first = None
    /\ prev_last = None
    /\ call = NoCall

NextInput == Start \/ Display \/ Prompt \/ Move \/ Check

SpecInput == InitInput /\ [][NextInput]_vars

\* ------------------------------------- Board and Game functions on any board
\* one call of get_position, set_piece or check_winner on a board with any
\* contents; call records the arguments and what the call returned
Coords == 0 .. MaxCoord
AllBoards == [Cells -> BoardPosition]

InitBoard ==
    /\ board \in AllBoards
    /\ turn = Naught
    /\ winning_positions = Game_new_winning_positions
    /\ pc = "call"
    /\ stdout = <<>>
    /\ stdin = AnyInput
    /\ nmoves = 0
    /\ first_mover = None
    /\ last_mover = None
    /\ prev_first = None
    /\ prev_last = None
    /\ call = NoCall

CallGetPosition ==
    /\ pc = "call"
    /\ \E x \in Coords, y \in Coords :
          call' = [fn |-> "get_position", x |-> x, y |-> y, piece |-> None,
                   ret |-> get_position(board, x, y)]
    /\ pc' = "returned"
    /\ UNCHANGED <<board, turn, winning_positions, stdout, stdin, nmoves,
                   first_mover, last_mover, prev_first, prev_last>>

CallSetPiece ==
    /\ pc = "call"
    /\ \E x \in Coords, y \in Coords, piece \in Piece :
          call' = [fn |-> "set_piece", x |-> x, y |-> y, piece |-> piece,
                   ret |-> set_piece(board, x, y, piece)]
    /\ pc' = "returned"
    /\ UNCHANGED <<board, turn, winning_positions, stdout, stdin, nmoves,
                   first_mover, last_mover, prev_first, prev_last>>

CallCheckWinner ==
    /\ pc = "call"
    /\ call' = [fn |-> "check_winner", x |-> 0, y |-> 0, piece |-> None,
                ret |-> check_winner(board, winning_positions)]
    /\ pc' = "returned"
    /\ UNCHANGED <<board, turn, winning_positions, stdout, stdin, nmoves,
                   first_mover, last_mover, prev_first, prev_last>>

NextBoard == CallGetPosition \/ CallSetPiece \/ CallCheckWinner

SpecBoard == InitBoard /\ [][NextBoard]_vars

\* ================================================================ properties
\* the board as the data model describes it: rows of BOARD_WIDTH cells
Side == 0 .. (BOARD_WIDTH - 1)
At(positions, row, col) == positions[row * BOARD_WIDTH + col]
Full(positions) == \A i \in DOMAIN positions : positions[i] # None
Other(piece) == IF piece = Naught THEN Cross ELSE Naught

\* piece holds a whole row, a whole column or a whole diagonal
HasLine(positions, piece) ==
    \/ \E row \in Side : \A col \in Side : At(positions, row, col) = piece
    \/ \E col \in Side : \A row \in Side : At(positions, row, col) = piece
    \/ \A i \in Side : At(positions, i, i) = piece
    \/ \A i \in Side : At(positions, i, BOARD_WIDTH - 1 - i) = piece

\* the glyph a printed board shows on a line at a position
RenderedGlyph(text, line, pos) == text[line * (2 * BOARD_WIDTH + 1) + 2 * pos + 1]
IsRender(text) == Len(text) = BOARD_WIDTH * (2 * BOARD_WIDTH + 1) + 1
Glyph(piece) == IF piece = Naught THEN "O" ELSE "X"
Latest(out) == out[Len(out)]
\* the line typed for the tokens a and b
Typed(a, b) == Ok(<<Digits[a + 1], " ", Digits[b + 1], "\n">>)

\* C1: a move that fills the board without completing a line ends the round;
\* the game is never about to show, prompt for or read a move on a full board.
C1_FullBoardEndsRound ==
    pc \in {"display", "prompt", "move"} => ~Full(board)

\* C2 as stated: once a round has ended, the fresh state has an empty board
\* and the piece to start is the opposite of the ended round's first mover.
C2_StarterOppositeOfFirstMover ==
    (prev_first # None /\ nmoves = 0 /\ pc \in {"display", "prompt", "move"})
        => (board = [i \in Cells |-> None] /\ turn = Other(prev_first))

\* C2 amended: once a round has ended, the fresh state has an empty board and
\* the piece to start is the opposite of the piece that made the last
\* (winning) move of the ended round.
C2_StarterOppositeOfLastMover ==
    (prev_last # None /\ nmoves = 0 /\ pc \in {"display", "prompt", "move"})
        => (board = [i \in Cells |-> None] /\ turn = Other(prev_last))

\* a round won by its second mover has ended: its first mover starts again
C2_Witness ==
    /\ pc = "display" /\ nmoves = 0
    /\ prev_first # None /\ prev_last = Other(prev_first)
    /\ turn = prev_first

\* C3: whatever line is read, get_move gives coordinates or InvalidMoveInput
\* and the program never crashes.
C3_GetMoveNeverCrashes ==
    pc # "panicked"

\* C4 as stated: the line "<row> <col>" puts the piece in slot
\* row * side + col, which the next printed board shows on line row at
\* position col.
C4_FirstTokenIsRow ==
    \A row \in Side, col \in Side :
        stdin = Typed(row, col) =>
            /\ pc = "check" => board[row * BOARD_WIDTH + col] = last_mover
            /\ (pc = "prompt" /\ nmoves = 1)
                   => RenderedGlyph(Latest(stdout), row, col) = Glyph(last_mover)

\* C4 amended: the line "<a> <b>" puts the piece in slot b * side + a and
\* nowhere else, which the next printed board shows on line b at position a:
\* the first token is the column and the second the row.
C4_FirstTokenIsColumn ==
    \A a \in Side, b \in Side :
        stdin = Typed(a, b) =>
            /\ pc = "check" =>
                  \A i \in Cells :
                      board[i] = IF i = b * BOARD_WIDTH + a THEN last_mover ELSE None
            /\ (pc = "prompt" /\ nmoves = 1) =>
                  \A line \in Side, pos \in Side :
                      RenderedGlyph(Latest(stdout), line, pos) =
                          IF line = b /\ pos = a THEN Glyph(last_mover) ELSE "."

\* "0 1" was typed and the board with the piece on line 1, position 0 printed
C4_Witness ==
    /\ stdin = Typed(0, 1)
    /\ pc = "prompt" /\ nmoves = 1
    /\ board[BOARD_WIDTH] = Naught
    /\ RenderedGlyph(Latest(stdout), 1, 0) = "O"

\* C5: the board is printed after every successful move, the winning one
\* included: when the winner has been announced, the board with the winning
\* move is among the texts printed.
C5_WinningBoardPrinted ==
    pc = "won" => \E k \in 1 .. Len(stdout) : stdout[k] = println(Board_fmt(board))

\* C6: a move that completes a line wins the round at the check that follows:
\* the piece announced is the one that moved, the next thing the program does
\* is print the new-round banner (no move is read), and what follows the
\* banner is a printed empty board.
C6_Step ==
    /\ (pc = "check" /\ \E piece \in Piece : HasLine(board, piece)) =>
          /\ pc' = "won"
          /\ Latest(stdout') = println(<<Glyph(last_mover), " won!">>)
          /\ board' = board
    /\ pc = "won" =>
          /\ Latest(stdout) = println(<<Glyph(last_mover), " won!">>)
          /\ pc' = "display"
          /\ Latest(stdout') = println(StartingANewGame)
          /\ nmoves' = 0
    /\ (pc = "display" /\ Latest(stdout) = println(StartingANewGame)) =>
          /\ pc' = "prompt"
          /\ IsRender(Latest(stdout'))
          /\ \A line \in Side, pos \in Side :
                RenderedGlyph(Latest(stdout'), line, pos) = "."
          /\ stdout'[Len(stdout') - 1] = println(StartingANewGame)

C6_WinEndsRound == [][C6_Step]_vars

\* the banner and the empty board have been printed after a won round
C6_Witness ==
    /\ pc = "prompt"
    /\ prev_last # None
    /\ Len(stdout) >= 2
    /\ stdout[Len(stdout) - 1] = println(StartingANewGame)
    /\ Latest(stdout) = println(Board_fmt(Board_new))

\* C7: check_winner returns the piece of the first line, in the order the
\* lines were generated, whose cells all hold one piece, and None exactly
\* when no row, column or diagonal is held by one piece.
C7_CheckWinner ==
    call.fn = "check_winner" =>
        LET held == {k \in 1 .. Len(winning_positions) :
                        \E piece \in Piece :
                            \A m \in 1 .. Len(winning_positions[k]) :
                                At(board, winning_positions[k][m][2],
                                          winning_positions[k][m][1]) = piece}
            first == CHOOSE k \in held : \A m \in held : k <= m
        IN  /\ held # {} =>
                  call.ret = At(board, winning_positions[first][1][2],
                                       winning_positions[first][1][1])
            /\ held = {} => call.ret = None
            /\ call.ret = None <=> ~\E piece \in Piece : HasLine(board, piece)
            /\ call.ret \in Piece => HasLine(board, call.ret)

\* check_winner ran on a board where both pieces hold a line
C7_Witness ==
    /\ call.fn = "check_winner"
    /\ call.ret = Cross
    /\ HasLine(board, Cross) /\ HasLine(board, Naught)

\* C8: the winning lines are the BOARD_WIDTH rows, the BOARD_WIDTH columns and
\* the two diagonals, 2 * BOARD_WIDTH + 2 lines of BOARD_WIDTH in-bounds
\* coordinates each, none twice, and no step changes them.
WinningPositionsWellFormed ==
    LET cells(k) == {winning_positions[k][m] : m \in 1 .. Len(winning_positions[k])}
        lines == {cells(k) : k \in 1 .. Len(winning_positions)}
    IN  /\ Len(winning_positions) = 2 * BOARD_WIDTH + 2
        /\ \A k \in 1 .. Len(winning_positions) :
              /\ Len(winning_positions[k]) = BOARD_WIDTH
              /\ \A m \in 1 .. BOARD_WIDTH :
                    /\ winning_positions[k][m][1] \in Side
                    /\ winning_positions[k][m][2] \in Side
        /\ \A k \in 1 .. Len(winning_positions), m \in 1 .. Len(winning_positions) :
              k # m => winning_positions[k] # winning_positions[m] /\ cells(k) # cells(m)
        /\ \A row \in Side : {<<col, row>> : col \in Side} \in lines
        /\ \A col \in Side : {<<col, row>> : row \in Side} \in lines
        /\ {<<i, i>> : i \in Side} \in lines
        /\ {<<BOARD_WIDTH - 1 - i, i>> : i \in Side} \in lines

C8_WinningPositions ==
    [](WinningPositionsWellFormed) /\ [][winning_positions' = winning_positions]_vars

\* a second round is under way and the lines are still the eight lines
C8_Witness ==
    /\ prev_last # None /\ pc = "check" /\ nmoves = 3
    /\ Len(winning_positions) = 2 * BOARD_WIDTH + 2

\* C9: set_piece on an empty in-bounds cell returns Ok with a board of the
\* same length that holds the piece in that cell and equals the receiver in
\* every other cell; get_position on it returns the piece; the receiver is
\* as it was.
C9_Step ==
    (/\ call'.fn = "set_piece" /\ call.fn = "none"
     /\ call'.x \in Side /\ call'.y \in Side
     /\ At(board, call'.y, call'.x) = None) =>
        /\ call'.ret[1] = "Ok"
        /\ DOMAIN call'.ret[2] = DOMAIN board
        /\ Cardinality(DOMAIN call'.ret[2]) = BOARD_WIDTH * BOARD_WIDTH
        /\ \A row \in Side, col \in Side :
              At(call'.ret[2], row, col) =
                  IF row = call'.y /\ col = call'.x
                  THEN call'.piece ELSE At(board, row, col)
        /\ get_position(call'.ret[2], call'.x, call'.y) = Ok(call'.piece)
        /\ board' = board

C9_SetPieceOnEmptyCell == [][C9_Step]_vars

\* set_piece returned a board with the piece added to a board that had pieces
C9_Witness ==
    /\ call.fn = "set_piece" /\ call.ret[1] = "Ok"
    /\ call.x = 2 /\ call.y = 1 /\ call.piece = Cross
    /\ call.ret[2][5] = Cross /\ board[5] = None
    /\ board[2] = Naught /\ board[7] = Cross

\* C10: get_position and set_piece fail with OutOfBounds when a coordinate is
\* BOARD_WIDTH or more, whatever the board holds, and do not fail with
\* OutOfBounds when both are below BOARD_WIDTH.
C10_OutOfBounds ==
    call.fn \in {"get_position", "set_piece"} =>
        /\ (call.x >= BOARD_WIDTH \/ call.y >= BOARD_WIDTH)
               => (call.ret[1] = "Err" /\ call.ret[2] = <<"OutOfBounds">>)
        /\ (call.x < BOARD_WIDTH /\ call.y < BOARD_WIDTH)
               => ~(call.ret[1] = "Err" /\ call.ret[2] = <<"OutOfBounds">>)
        /\ call.ret[1] \in {"Ok", "Err"}

\* set_piece was refused on a full board for a column equal to BOARD_WIDTH
C10_Witness ==
    /\ call.fn = "set_piece"
    /\ call.x = BOARD_WIDTH /\ call.y = 0
    /\ call.ret = Err(OutOfBounds)
    /\ Full(board)

\* C11: set_piece on an in-bounds cell that already holds a piece, its own or
\* the other one, fails with PieceInPosition carrying the coordinates given,
\* returns no board, and leaves the receiver as it was.
C11_Step ==
    (/\ call'.fn = "set_piece" /\ call.fn = "none"
     /\ call'.x \in Side /\ call'.y \in Side
     /\ At(board, call'.y, call'.x) \in Piece) =>
        /\ call'.ret[1] = "Err"
        /\ call'.ret[2] = <<"PieceInPosition", call'.x, call'.y>>
        /\ board' = board
        /\ At(board', call'.y, call'.x) = At(board, call'.y, call'.x)

C11_OccupiedCellRefused == [][C11_Step]_vars

\* set_piece was asked to put a Cross on a cell holding a Naught and refused
C11_Witness ==
    /\ call.fn = "set_piece"
    /\ call.x = 2 /\ call.y = 0 /\ call.piece = Cross
    /\ board[2] = Naught
    /\ call.ret = Err(PieceInPosition(2, 0))

\* C12: within a round the turn alternates strictly: the k-th successful move
\* puts down the round's starting piece when k is odd and the other piece
\* when k is even, and after k moves that did not win the piece to move is
\* the one that moves k+1-th (the other piece after one move, the starting
\* piece again after two).
KthMover(k, starter) == IF k % 2 = 1 THEN starter ELSE Other(starter)

C12_Step ==
    /\ (pc = "move" /\ pc' = "check") =>
          /\ nmoves' = nmoves + 1
          /\ \E i \in Cells :
                /\ board[i] = None
                /\ board'[i] = KthMover(nmoves', IF nmoves = 0 THEN turn ELSE first_mover)
                /\ \A j \in Cells \ {i} : board'[j] = board[j]
    /\ (pc = "check" /\ pc' = "display") =>
          /\ turn' = Other(turn)
          /\ turn' = KthMover(nmoves + 1, first_mover)
    /\ (pc' \in {"display", "prompt", "move"} /\ nmoves' >= 1) =>
          turn' = KthMover(nmoves' + 1, first_mover')

C12_TurnAlternates == [][C12_Step]_vars

\* two moves into a round that Cross started, it is Cross's turn again
C12_Witness ==
    /\ pc = "move" /\ nmoves = 2
    /\ first_mover = Cross /\ last_mover = Naught /\ turn = Cross

\* C13: a pass of the move loop in which get_move or set_piece returns an
\* error (the pass neither places a piece nor ends the process) leaves the
\* board and the turn as they were, prints the invalid-move message and stays
\* at the read of the next line for the same player, however many times in a
\* row that happens.
C13_Step ==
    (pc = "move" /\ pc' # "check" /\ pc' # "panicked") =>
        /\ pc' = "move"
        /\ board' = board
        /\ turn' = turn
        /\ nmoves' = nmoves
        /\ Latest(stdout') = println(<<"Invalid move. Try again:">>)

C13_FailureKeepsState == [][C13_Step]_vars

\* in the middle of a round, two failed attempts in a row, still at the read
C13_Witness ==
    /\ pc = "move" /\ nmoves = 3 /\ turn = Cross
    /\ Len(stdout) >= 2
    /\ Latest(stdout) = println(InvalidMove)
    /\ stdout[Len(stdout) - 1] = println(InvalidMove)

\* C14: in every reachable state at most one piece holds a complete line, and
\* when the winner is checked the only piece that can hold one is the piece
\* that has just moved.
C14_OneWinnerAtMost ==
    /\ ~(HasLine(board, Naught) /\ HasLine(board, Cross))
    /\ pc = "check" =>
          \A piece \in Piece :
              HasLine(board, piece) => (piece = last_mover /\ piece = turn)

\* the check runs on a board where the mover holds two lines at once
C14_Witness ==
    /\ pc = "check" /\ last_mover = Naught
    /\ \A col \in Side : At(board, 0, col) = Naught
    /\ \A row \in Side : At(board, row, 0) = Naught
    /\ ~HasLine(board, Cross)

\* C15: whenever the game shows the board, prompts or reads a move, no piece
\* holds a complete line; so no move is accepted onto a board that has a
\* winner.
C15_Step ==
    /\ pc' \in {"display", "prompt", "move"} =>
          \A piece \in Piece : ~HasLine(board', piece)
    /\ (pc = "move" /\ pc' = "check") =>
          \A piece \in Piece : ~HasLine(board, piece)

C15_NoPromptAfterWin == [][C15_Step]_vars

\* eight moves in with no line held, the game reads the ninth move
C15_Witness ==
    /\ pc = "move" /\ nmoves = 8
    /\ Cardinality({i \in Cells : board[i] = None}) = 1
    /\ \A piece \in Piece : ~HasLine(board, piece)

\* C16: after a won round the piece to start the next round is the opponent
\* of the winner: at the reset the turn is still the winner's, and reset
\* flips it.
C16_Step ==
    pc = "won" =>
        \A piece \in Piece :
            (HasLine(board, piece) \/ Latest(stdout) = println(<<Glyph(piece), " won!">>)) =>
                /\ turn = piece
                /\ pc' = "display"
                /\ turn' = Other(piece)
                /\ nmoves' = 0
                /\ \A i \in Cells : board'[i] = None

C16_LoserStartsNext == [][C16_Step]_vars

\* Cross won, the banner is printed and Naught is to start
C16_Witness ==
    /\ pc = "display" /\ nmoves = 0 /\ turn = Naught
    /\ Len(stdout) >= 2
    /\ Latest(stdout) = println(StartingANewGame)
    /\ stdout[Len(stdout) - 1] = println(<<"X", " won!">>)

\* C17: the two pieces' cell counts differ by at most one, the round's
\* starting piece never holds fewer cells than the other, and when a move is
\* awaited the piece to move is the starting piece exactly when the counts
\* are equal.
Held(positions, piece) == Cardinality({i \in DOMAIN positions : positions[i] = piece})
Starter == IF nmoves = 0 THEN turn ELSE first_mover

C17_CountsBalanced ==
    /\ Held(board, Starter) - Held(board, Other(Starter)) \in {0, 1}
    /\ Held(board, Naught) + Held(board, Cross) = nmoves
    /\ pc \in {"display", "prompt", "move"} =>
          (turn = Starter <=> Held(board, Naught) = Held(board, Cross))

\* four moves into a round Cross started: two cells each, Cross to move
C17_Witness ==
    /\ pc = "move" /\ first_mover = Cross /\ turn = Cross
    /\ Held(board, Naught) = 2 /\ Held(board, Cross) = 2

\* C18: a round that ends with a winner ends after at least 2 * side - 1 (5)
\* and at most side * side (9) successful moves, and the cells occupied at
\* the win are as many as the successful moves of the round.
C18_WinAfterFiveToNine ==
    pc = "won" =>
        /\ nmoves >= 2 * BOARD_WIDTH - 1
        /\ nmoves <= BOARD_WIDTH * BOARD_WIDTH
        /\ Cardinality({i \in Cells : board[i] # None}) = nmoves

\* a round won with the ninth move, on a full board
C18_Witness ==
    /\ pc = "won" /\ nmoves = 9
    /\ Full(board)

====
